---- MODULE Spec2Model ----
(***************************************************************************)
(* Model of the Axios client wrapper of src/src/index.ts: one client       *)
(* (transport instance, auth flag, cookie accessor), its request/response  *)
(* interceptors, the refresh-and-retry procedure #getNewToken and the verb *)
(* methods.  Every dispatch through the transport instance is a frame on   *)
(* the promise chain of the caller that started it; the frames of one      *)
(* caller form a stack because #getNewToken awaits the refresh POST, and   *)
(* the promise of the re-issued request takes the place of the promise of  *)
(* the request it re-issues because #getNewToken returns it.               *)
(*                                                                         *)
(* Strings are sequences of one-character strings.  A JavaScript value     *)
(* that may be undefined is Undefined (the empty tuple) or Some(v).        *)
(***************************************************************************)
EXTENDS Integers, Sequences, FiniteSets, TLC

\* ----------------------------------------------------------------- bounds
MaxExpired == 2      \* token-expired answers the server gives in one run
MaxTime    == 1      \* last clock value
MaxPercent == 2      \* most '%' characters in a token the server hands out
MaxIssued  == 2      \* answers carrying a token header or body field in one run
MaxId      == 10     \* largest number passed to put as id

\* ------------------------------------------------- constants of constants/
STATUS_CODE_TOKEN_EXPIRE    == 401
COOKIE_EXPIRE_ACCESS_TOKEN  == 1
COOKIE_EXPIRE_REFRESH_TOKEN == 2
COOKIE_KEY_ACCESS_TOKEN     == "ACCESS_TOKEN"
COOKIE_KEY_REFRESH_TOKEN    == "REFRESH_TOKEN"
COOKIE_CONFIG_DEFAULT       == "DEFAULT"
COOKIE_API_PATH_GET_NEW_ACCESS_TOKEN == <<"refresh">>
METHOD_GET  == "get"
METHOD_POST == "post"
METHOD_PUT  == "put"

\* ------------------------------------------------------- JavaScript values
Undefined == <<>>
Some(v)   == <<v>>

\* the string "undefined", what a template literal makes of undefined
StrUndefined == <<"u", "n", "d", "e", "f", "i", "n", "e", "d">>

\* a template literal that makes the empty string of undefined
TemplateStringOrEmpty(opt) == IF opt = Undefined THEN <<>> ELSE opt[1]

\* `${v}` for v a string or undefined
TemplateString(opt) == IF opt = Undefined THEN StrUndefined ELSE opt[1]

\* if (v): undefined and "" are falsy, every other string is truthy
Truthy(opt) == opt # Undefined /\ opt[1] # <<>>

Min(S) == CHOOSE m \in S : \A n \in S : m <= n

\* String.prototype.replace(pattern, replacement) with a string pattern of one
\* character: only the first occurrence is replaced
StringReplace(s, pattern, replacement) ==
    LET hits == {i \in 1..Len(s) : s[i] = pattern}
    IN  IF hits = {} THEN s
        ELSE [i \in 1..Len(s) |-> IF i = Min(hits) THEN replacement ELSE s[i]]

\* v?.replace('%', ' ')
OptionalReplace(opt) ==
    IF opt = Undefined THEN Undefined ELSE Some(StringReplace(opt[1], "%", " "))

\* { ...obj, [key]: value }
Spread(obj, key, value) ==
    [k \in DOMAIN obj \cup {key} |-> IF k = key THEN value ELSE obj[k]]

\* ------------------------------------------------------------- the cookie
\* Cookie.get(key): the value of the cookie, undefined when there is none
CookieGet(jar, key) ==
    IF jar[key] = Undefined THEN Undefined ELSE Some(jar[key][1].value)

\* Cookie.set(key, value, options)
CookieSet(jar, key, value, options) ==
    [jar EXCEPT ![key] = Some([value   |-> value,
                               config  |-> options.config,
                               expires |-> options.expires])]

\* --------------------------------------------------------- the test inputs
\* a token with k '%' characters: "a", "a%b", "a%b%b", ...
RECURSIVE Token(_)
Token(k) == IF k = 0 THEN <<"a">> ELSE Token(k - 1) \o <<"%", "b">>

\* the access token in the cookie jar at the start, the one the server sends
\* in authorization headers and the ones the refresh endpoint answers
InitialAccessToken == Token(0)
HeaderTokens  == {Token(1)}
AccessTokens  == {Token(k) : k \in 1..MaxPercent}
RefreshTokens == {<<"r", "1">>}
InitialRefreshToken == <<"r", "0">>

\* the two parts of the application that call the client, each once
Callers == {1, 2}

NoHeaders == [h \in {} |-> <<>>]
NoData    == [f \in {} |-> <<>>]
NoParams  == [p \in {} |-> <<>>]

\* -------------------------------------------------------- the verb methods
\* get(endPoint)
get(endPoint) ==
    [method |-> METHOD_GET, url |-> endPoint, params |-> NoParams,
     headers |-> NoHeaders, data |-> NoData]

\* post(endPoint, data)
post(endPoint, data) ==
    [method |-> METHOD_POST, url |-> endPoint, params |-> NoParams,
     headers |-> NoHeaders, data |-> data]

\* postMultipartFormData(endPoint, data)
postMultipartFormData(endPoint, data) ==
    [method |-> "POST", url |-> endPoint, params |-> NoParams,
     headers |-> [h \in {"Content-Type"} |-> <<"multipart/form-data">>],
     data |-> data]

\* the values an id argument can be at run time: every value has a type, and
\* the number or the string it is (false and true are the booleans 0 and 1)
JsValue(type, number, string) ==
    [type |-> type, number |-> number, string |-> string]
JsUndefined == JsValue("undefined", 0, <<>>)
JsNull      == JsValue("null", 0, <<>>)
JsNaN       == JsValue("NaN", 0, <<>>)
JsFalse     == JsValue("boolean", 0, <<>>)
JsNumber(n) == JsValue("number", n, <<>>)
JsString(s) == JsValue("string", 0, s)

\* !!v
ToBoolean(v) ==
    CASE v.type = "number"  -> v.number # 0
      [] v.type = "string"  -> v.string # <<>>
      [] v.type = "boolean" -> v.number # 0
      [] OTHER              -> FALSE

\* v === w
StrictEquals(v, w) == v.type # "NaN" /\ v = w

\* the decimal digits of a natural number, as in `${n}`
Digit(d) == <<"0", "1", "2", "3", "4", "5", "6", "7", "8", "9">>[d + 1]
RECURSIVE Digits(_)
Digits(n) ==
    IF n < 10 THEN <<Digit(n)>> ELSE Digits(n \div 10) \o <<Digit(n % 10)>>

\* `${v}`
TemplateLiteral(v) ==
    CASE v.type = "number"    -> IF v.number < 0
                                 THEN <<"-">> \o Digits(0 - v.number)
                                 ELSE Digits(v.number)
      [] v.type = "string"    -> v.string
      [] v.type = "boolean"   -> IF v.number # 0 THEN <<"true">> ELSE <<"false">>
      [] v.type = "NaN"       -> <<"NaN">>
      [] v.type = "null"      -> <<"null">>
      [] OTHER                -> StrUndefined

\* put with `!!id ? ... : endPoint`, without the tests for '' and 0
putTruthyOnly(endPoint, data, id) ==
    [method |-> METHOD_PUT,
     url |-> IF ToBoolean(id) THEN endPoint \o <<"/">> \o TemplateLiteral(id) ELSE endPoint,
     params |-> NoParams, headers |-> NoHeaders, data |-> data]

\* put(endPoint, data, id = undefined)
put(endPoint, data, id) ==
    [method |-> METHOD_PUT,
     url |-> IF \/ ToBoolean(id)
                \/ StrictEquals(id, JsString(<<>>))
                \/ StrictEquals(id, JsNumber(0))
             THEN endPoint \o <<"/">> \o TemplateLiteral(id)
             ELSE endPoint,
     params |-> NoParams, headers |-> NoHeaders, data |-> data]

\* the arguments put is called with: id omitted (undefined), a number, a
\* string, or another falsy value
EndPoints == {<<"items">>}
PutData   == {[name |-> <<"x">>], [name |-> <<"y">>]}
Ids ==
    {JsUndefined, JsNull, JsNaN, JsFalse}
    \cup {JsNumber(n) : n \in (0 - 1)..MaxId}
    \cup {JsString(s) : s \in {<<>>, <<"0">>, <<"a", "b">>}}

\* the call each caller makes
VerbCalls(c) ==
    IF c = 1 THEN {get(<<"items">>)}
    ELSE {postMultipartFormData(<<"items">>, [file |-> <<"x">>])}

\* ------------------------------------------------------------------- state
VARIABLES
    auth,        \* #auth, the constructor's isAuthReq
    cookie,      \* the cookie jar behind #cookie: key -> Undefined or Some(entry)
    now,         \* the clock read by new Date()
    turn,        \* the caller whose promise chain the event loop is running: a
                 \* chain runs from a call or an answer to its next request or
                 \* to the caller, and no other chain runs in between; 0 if none
    stack,       \* caller -> the dispatches of its promise chain, innermost last
    result,      \* caller -> Undefined, or Some(outcome) while the continuation of
                 \*           the caller runs with the settlement of its promise
    done,        \* caller -> its call is over
    expired,     \* token-expired answers given so far
    issued,      \* answers given so far that carried a token field
    dispatched,  \* caller -> how many refresh POSTs / other requests its call
                 \*           has dispatched
    solo,        \* caller -> no other call was pending while its call was
    expiredTogether,
                 \* the callers whose own request was answered token-expired
                 \* while the other caller's own request was in flight, or after
                 \* the other caller's was so answered with this one in flight
    lastWrite,   \* Some(the value last written to the access-token cookie)
    args         \* caller -> Some(the arguments of the put call it has pending)

vars == <<auth, cookie, now, turn, stack, result, done, expired, issued,
          dispatched, solo, expiredTogether, lastWrite, args>>

\* ------------------------------------------------------ the interceptors
\* the Authorization value of #setAuthReq and #getNewToken:
\* `${this.#cookie.get(COOKIE.KEY.ACCESS_TOKEN)?.replace('%', ' ')}`
AuthorizationValue(jar) ==
    TemplateString(OptionalReplace(CookieGet(jar, COOKIE_KEY_ACCESS_TOKEN)))

\* #setAuthReq reading the cookie of the wrong key
setAuthReqWrongKey(config, jar) ==
    [config EXCEPT
        !.headers = Spread(config.headers, "Authorization",
                           TemplateString(OptionalReplace(
                               CookieGet(jar, COOKIE_KEY_REFRESH_TOKEN))))]

\* #setAuthReq(config)
setAuthReq(config, jar) ==
    [config EXCEPT
        !.headers = Spread(config.headers, "Authorization", AuthorizationValue(jar))]

\* #reqMiddleWare without the test of #auth
reqMiddleWareAlways(config, isAuth, jar) == setAuthReq(config, jar)

\* #reqMiddleWare(config)
reqMiddleWare(config, isAuth, jar) ==
    IF isAuth THEN setAuthReq(config, jar) ELSE config

\* #resMiddleWare with `else if (refreshtoken)`
resMiddleWareElseIf(res, jar, time) ==
    LET authorization == res.headers.authorization
        refreshtoken  == res.headers.refreshtoken
    IN  [cookie |->
            IF Truthy(authorization)
            THEN CookieSet(jar, COOKIE_KEY_ACCESS_TOKEN, authorization[1],
                           [config  |-> COOKIE_CONFIG_DEFAULT,
                            expires |-> time + COOKIE_EXPIRE_ACCESS_TOKEN])
            ELSE IF Truthy(refreshtoken)
            THEN CookieSet(jar, COOKIE_KEY_REFRESH_TOKEN, refreshtoken[1],
                           [config  |-> COOKIE_CONFIG_DEFAULT,
                            expires |-> time + COOKIE_EXPIRE_REFRESH_TOKEN])
            ELSE jar,
         returns |-> res]

\* #resMiddleWare with the refresh-token write inside `if (authorization)`
resMiddleWareNested(res, jar, time) ==
    LET authorization == res.headers.authorization
        refreshtoken  == res.headers.refreshtoken
        jar1 == CookieSet(jar, COOKIE_KEY_ACCESS_TOKEN, authorization[1],
                          [config  |-> COOKIE_CONFIG_DEFAULT,
                           expires |-> time + COOKIE_EXPIRE_ACCESS_TOKEN])
        jar2 == IF Truthy(refreshtoken)
                THEN CookieSet(jar1, COOKIE_KEY_REFRESH_TOKEN, refreshtoken[1],
                               [config  |-> COOKIE_CONFIG_DEFAULT,
                                expires |-> time + COOKIE_EXPIRE_REFRESH_TOKEN])
                ELSE jar1
    IN  [cookie |-> IF Truthy(authorization) THEN jar2 ELSE jar, returns |-> res]

\* #resMiddleWare(res): the cookie jar it leaves and the value it returns
resMiddleWare(res, jar, time) ==
    LET authorization == res.headers.authorization
        refreshtoken  == res.headers.refreshtoken
        jar1 == IF Truthy(authorization)
                THEN CookieSet(jar, COOKIE_KEY_ACCESS_TOKEN, authorization[1],
                               [config  |-> COOKIE_CONFIG_DEFAULT,
                                expires |-> time + COOKIE_EXPIRE_ACCESS_TOKEN])
                ELSE jar
        jar2 == IF Truthy(refreshtoken)
                THEN CookieSet(jar1, COOKIE_KEY_REFRESH_TOKEN, refreshtoken[1],
                               [config  |-> COOKIE_CONFIG_DEFAULT,
                                expires |-> time + COOKIE_EXPIRE_REFRESH_TOKEN])
                ELSE jar1
    IN  [cookie |-> jar2, returns |-> res]

\* #resOnError without the comparison of the status
resOnErrorRefreshesAnyStatus(error) == error.response # Undefined

\* the condition of #resOnError under which #getNewToken is called
resOnErrorRefreshes(error) ==
    /\ error.response # Undefined
    /\ error.response[1].status = STATUS_CODE_TOKEN_EXPIRE

\* #getNewToken: the configuration of the refresh POST,
\* this.#instance.post(path, { refreshToken: this.#cookie.get(REFRESH_TOKEN) })
getNewTokenPost(jar) ==
    [method |-> METHOD_POST, url |-> COOKIE_API_PATH_GET_NEW_ACCESS_TOKEN,
     params |-> NoParams, headers |-> NoHeaders,
     data |-> [refreshToken |-> CookieGet(jar, COOKIE_KEY_REFRESH_TOKEN)]]

\* #getNewToken writing the cookie only when there is none
getNewTokenCookieIfAbsent(response, jar, time) ==
    LET accessToken == response.data.accessToken
    IN  IF Truthy(accessToken) /\ jar[COOKIE_KEY_ACCESS_TOKEN] = Undefined
        THEN CookieSet(jar, COOKIE_KEY_ACCESS_TOKEN, accessToken[1],
                       [config  |-> COOKIE_CONFIG_DEFAULT,
                        expires |-> time + COOKIE_EXPIRE_REFRESH_TOKEN])
        ELSE jar

\* #getNewToken writing the accessToken to the refresh-token cookie
getNewTokenCookieRefreshKey(response, jar, time) ==
    LET accessToken == response.data.accessToken
    IN  IF Truthy(accessToken)
        THEN CookieSet(jar, COOKIE_KEY_REFRESH_TOKEN, accessToken[1],
                       [config  |-> COOKIE_CONFIG_DEFAULT,
                        expires |-> time + COOKIE_EXPIRE_REFRESH_TOKEN])
        ELSE jar

\* #getNewToken with `if (accessToken !== undefined)`
getNewTokenCookieIfDefined(response, jar, time) ==
    LET accessToken == response.data.accessToken
    IN  IF accessToken # Undefined
        THEN CookieSet(jar, COOKIE_KEY_ACCESS_TOKEN, accessToken[1],
                       [config  |-> COOKIE_CONFIG_DEFAULT,
                        expires |-> time + COOKIE_EXPIRE_REFRESH_TOKEN])
        ELSE jar

\* #getNewToken giving the cookie the lifetime of an access token
getNewTokenCookieAccessTtl(response, jar, time) ==
    LET accessToken == response.data.accessToken
    IN  IF Truthy(accessToken)
        THEN CookieSet(jar, COOKIE_KEY_ACCESS_TOKEN, accessToken[1],
                       [config  |-> COOKIE_CONFIG_DEFAULT,
                        expires |-> time + COOKIE_EXPIRE_ACCESS_TOKEN])
        ELSE jar

\* #getNewToken: the cookie jar after the refresh POST resolved with response
getNewTokenCookie(response, jar, time) ==
    LET accessToken == response.data.accessToken
    IN  IF Truthy(accessToken)
        THEN CookieSet(jar, COOKIE_KEY_ACCESS_TOKEN, accessToken[1],
                       [config  |-> COOKIE_CONFIG_DEFAULT,
                        expires |-> time + COOKIE_EXPIRE_REFRESH_TOKEN])
        ELSE jar

\* #getNewToken re-issuing the configuration as it was
getNewTokenConfigStale(config, jar) == config

\* #getNewToken setting Authorization only on a client with #auth
getNewTokenConfigIfAuth(config, jar) ==
    IF auth
    THEN [config EXCEPT
             !.headers = Spread(config.headers, "Authorization",
                                AuthorizationValue(jar))]
    ELSE config

\* #getNewToken: the configuration of the re-issued request
getNewTokenConfig(config, jar) ==
    [config EXCEPT
        !.headers = Spread(config.headers, "Authorization", AuthorizationValue(jar))]

\* ------------------------------------------------------ the promise chains
\* one dispatch through this.#instance: the configuration it was called with,
\* the configuration the request interceptor let out, the answer of the
\* transport and the settlement the response interceptor made of it
NewFrame(kind, config, id) ==
    [id |-> id, kind |-> kind, config |-> config, sent |-> Undefined,
     stage |-> "created", answer |-> Undefined, outcome |-> Undefined]

Resolved(value) == [ok |-> TRUE, value |-> value]
Rejected(error) == [ok |-> FALSE, value |-> error]

Depth(c)  == Len(stack[c])
Top(c)    == stack[c][Depth(c)]
Parent(c) == stack[c][Depth(c) - 1]
IsRefreshUrl(config) == config.url = COOKIE_API_PATH_GET_NEW_ACCESS_TOKEN
NextId(c) == dispatched[c].refresh + dispatched[c].request + 1
InFlight(c) == stack[c] # <<>> /\ Top(c).stage = "inflight"

\* the bookkeeping of one more dispatch of caller c; the counts stop at twice
\* the token-expired answers counted at a time, which is more than one call
\* dispatches to either kind of URL while the server is limited to these
Count(c, config) ==
    IF IsRefreshUrl(config)
    THEN [dispatched EXCEPT ![c].refresh = Min({@ + 1, 2 * MaxExpired})]
    ELSE [dispatched EXCEPT ![c].request = Min({@ + 1, 2 * MaxExpired})]

\* the token-expired status and the other things a server or network answers
ErrorResponses ==
    {Undefined, Some([status |-> 500]), Some([status |-> STATUS_CODE_TOKEN_EXPIRE])}

IsExpired(response) ==
    response # Undefined /\ response[1].status = STATUS_CODE_TOKEN_EXPIRE

OptionalTokens(tokens) == {Undefined, Some(<<>>)} \cup {Some(t) : t \in tokens}

ResponseHeaders ==
    [authorization : OptionalTokens(HeaderTokens),
     refreshtoken  : OptionalTokens(RefreshTokens)]

\* the body of a successful answer: the refresh endpoint answers accessToken
ResponseData(config) ==
    IF IsRefreshUrl(config)
    THEN [accessToken : OptionalTokens(AccessTokens)]
    ELSE {[accessToken |-> Undefined]}

ResponseBodies == [accessToken : OptionalTokens(AccessTokens)]

\* the answer has a token header or body field, be it the empty string
CarriesToken(headers, data) ==
    \/ headers.authorization # Undefined
    \/ headers.refreshtoken # Undefined
    \/ data.accessToken # Undefined

Jars ==
    [ACCESS_TOKEN :
        {Undefined,
         Some([value |-> InitialAccessToken, config |-> COOKIE_CONFIG_DEFAULT,
               expires |-> COOKIE_EXPIRE_ACCESS_TOKEN])},
     REFRESH_TOKEN :
        {Some([value |-> InitialRefreshToken, config |-> COOKIE_CONFIG_DEFAULT,
               expires |-> COOKIE_EXPIRE_REFRESH_TOKEN])}]

\* ------------------------------------------------------------------- Init
\* new Axios(isAuthReq), on a browser whose cookie jar holds the refresh token
\* of a session and its access token, or no access token any more
Init ==
    /\ auth \in BOOLEAN
    /\ cookie \in Jars
    /\ now = 0
    /\ turn = 0
    /\ stack = [c \in Callers |-> <<>>]
    /\ result = [c \in Callers |-> Undefined]
    /\ done = [c \in Callers |-> FALSE]
    /\ expired = 0
    /\ issued = 0
    /\ dispatched = [c \in Callers |-> [refresh |-> 0, request |-> 0]]
    /\ solo = [c \in Callers |-> TRUE]
    /\ expiredTogether = {}
    /\ lastWrite = Undefined
    /\ args = [c \in Callers |-> Undefined]

\* ---------------------------------------------------------------- actions
\* a verb method is called: this.#instance(config)
Call(c, config) ==
    /\ turn = 0
    /\ stack[c] = <<>>
    /\ ~done[c]
    /\ stack' = [stack EXCEPT ![c] = <<NewFrame("verb", config, NextId(c))>>]
    /\ dispatched' = Count(c, config)
    /\ solo' = [d \in Callers |->
                  IF d = c THEN \A e \in Callers \ {c} : stack[e] = <<>>
                  ELSE IF stack[d] # <<>> THEN FALSE ELSE solo[d]]
    /\ turn' = c
    /\ UNCHANGED <<auth, args, cookie, now, result, done, expired, issued,
                   expiredTogether, lastWrite>>

\* put is called: this.#instance(config) with the configuration put builds
CallPut(c, endPoint, data, id) ==
    /\ turn = 0
    /\ stack[c] = <<>>
    /\ ~done[c]
    /\ args' = [args EXCEPT ![c] = Some([endPoint |-> endPoint, data |-> data,
                                         id |-> id])]
    /\ stack' = [stack EXCEPT ![c] =
                    <<NewFrame("verb", put(endPoint, data, id), NextId(c))>>]
    /\ dispatched' = Count(c, put(endPoint, data, id))
    /\ solo' = [d \in Callers |->
                  IF d = c THEN \A e \in Callers \ {c} : stack[e] = <<>>
                  ELSE IF stack[d] # <<>> THEN FALSE ELSE solo[d]]
    /\ turn' = c
    /\ UNCHANGED <<auth, cookie, now, result, done, expired, issued,
                   expiredTogether, lastWrite>>

\* the request interceptor #reqMiddleWare runs and the request goes out
RequestInterceptor(c) ==
    /\ turn = c
    /\ stack[c] # <<>>
    /\ Top(c).stage = "created"
    /\ stack' = [stack EXCEPT ![c][Depth(c)] =
                    [@ EXCEPT !.sent = Some(reqMiddleWare(Top(c).config, auth, cookie)),
                              !.stage = "inflight"]]
    /\ turn' = 0
    /\ UNCHANGED <<auth, args, cookie, now, result, done, expired, issued, dispatched,
                   solo, expiredTogether, lastWrite>>

\* a 2xx answer arrives: the success interceptor #resMiddleWare
ResponseSuccess(c, headers, data) ==
    /\ turn = 0
    /\ InFlight(c)
    /\ data \in ResponseData(Top(c).config)
    /\ CarriesToken(headers, data) => issued < MaxIssued
    /\ issued' = IF CarriesToken(headers, data) THEN issued + 1 ELSE issued
    /\ LET res == [status |-> 200, headers |-> headers, data |-> data,
                   config |-> Top(c).sent[1], request |-> <<c, Top(c).id>>]
           out == resMiddleWare(res, cookie, now)
       IN  /\ cookie' = out.cookie
           /\ stack' = [stack EXCEPT ![c][Depth(c)] =
                           [@ EXCEPT !.answer = Some(res),
                                     !.outcome = Some(Resolved(out.returns)),
                                     !.stage = "settled"]]
    /\ lastWrite' = IF Truthy(headers.authorization)
                    THEN Some(headers.authorization[1]) ELSE lastWrite
    /\ turn' = c
    /\ UNCHANGED <<auth, args, now, result, done, expired, dispatched, solo,
                   expiredTogether>>

\* the error of a request answered with response (Undefined: no answer at all)
ErrorOf(c, response) ==
    [response |-> response, config |-> Top(c).sent[1],
     request |-> <<c, Top(c).id>>]

\* a rejection arrives and #resOnError propagates it
ResOnErrorReject(c, response) ==
    /\ turn = 0
    /\ InFlight(c)
    /\ IsExpired(response) => expired < MaxExpired
    /\ ~resOnErrorRefreshes(ErrorOf(c, response))
    /\ stack' = [stack EXCEPT ![c][Depth(c)] =
                    [@ EXCEPT !.answer = Some(ErrorOf(c, response)),
                              !.outcome = Some(Rejected(ErrorOf(c, response))),
                              !.stage = "settled"]]
    /\ expired' = IF IsExpired(response) THEN expired + 1 ELSE expired
    /\ turn' = c
    /\ UNCHANGED <<auth, args, cookie, now, result, done, issued, dispatched, solo,
                   expiredTogether, lastWrite>>

\* a rejection arrives and #resOnError calls #getNewToken(error.config), which
\* runs up to its await: the refresh POST is handed to this.#instance
ResOnErrorRefresh(c, response) ==
    /\ turn = 0
    /\ InFlight(c)
    /\ IsExpired(response) => expired < MaxExpired
    /\ resOnErrorRefreshes(ErrorOf(c, response))
    /\ LET refreshPost == getNewTokenPost(cookie)
       IN  /\ stack' = [stack EXCEPT ![c] =
                          Append([@ EXCEPT
                                     ![Depth(c)].answer = Some(ErrorOf(c, response)),
                                     ![Depth(c)].stage = "refreshing"],
                                 NewFrame("refresh", refreshPost, NextId(c)))]
           /\ dispatched' = Count(c, refreshPost)
    /\ expired' = IF IsExpired(response) THEN expired + 1 ELSE expired
    /\ expiredTogether' =
         IF /\ Top(c).kind = "verb"
            /\ IsExpired(response)
            /\ \E d \in Callers \ {c} :
                  \/ InFlight(d) /\ Top(d).kind = "verb"
                  \/ d \in expiredTogether
         THEN expiredTogether \cup {c}
         ELSE expiredTogether
    /\ turn' = c
    /\ UNCHANGED <<auth, args, cookie, now, result, done, issued, solo, lastWrite>>

\* the refresh POST resolved: #getNewToken resumes after its await, writes the
\* cookie, builds newConfig and returns this.#instance(newConfig).  The promise
\* of the rejected request (what #resOnError returned) is from now on the
\* promise of the re-issued request, which takes its place in the chain
GetNewTokenResume(c) ==
    /\ turn = c
    /\ Depth(c) >= 2
    /\ Top(c).stage = "settled"
    /\ Top(c).outcome[1].ok
    /\ Parent(c).stage = "refreshing"
    /\ LET response  == Top(c).outcome[1].value
           jar       == getNewTokenCookie(response, cookie, now)
           newConfig == getNewTokenConfig(Parent(c).sent[1], jar)
       IN  /\ cookie' = jar
           /\ stack' = [stack EXCEPT ![c] =
                          Append(SubSeq(@, 1, Depth(c) - 2),
                                 NewFrame("retry", newConfig, NextId(c)))]
           /\ dispatched' = Count(c, newConfig)
           /\ lastWrite' = IF Truthy(response.data.accessToken)
                           THEN Some(response.data.accessToken[1]) ELSE lastWrite
    /\ UNCHANGED <<auth, args, now, turn, result, done, expired, issued, solo,
                   expiredTogether>>

\* #getNewToken re-issuing the request from its catch as well
GetNewTokenCatchRetries(c) ==
    /\ turn = c
    /\ Depth(c) >= 2
    /\ Top(c).stage = "settled"
    /\ ~Top(c).outcome[1].ok
    /\ Parent(c).stage = "refreshing"
    /\ LET newConfig == getNewTokenConfig(Parent(c).sent[1], cookie)
       IN  /\ stack' = [stack EXCEPT ![c] =
                          Append(SubSeq(@, 1, Depth(c) - 2),
                                 NewFrame("retry", newConfig, NextId(c)))]
           /\ dispatched' = Count(c, newConfig)
    /\ UNCHANGED <<auth, args, cookie, now, turn, result, done, expired, issued,
                   solo, expiredTogether, lastWrite>>

\* the refresh POST was rejected: the catch of #getNewToken rejects with it
GetNewTokenCatch(c) ==
    /\ turn = c
    /\ Depth(c) >= 2
    /\ Top(c).stage = "settled"
    /\ ~Top(c).outcome[1].ok
    /\ Parent(c).stage = "refreshing"
    /\ stack' = [stack EXCEPT ![c] =
                   [SubSeq(@, 1, Depth(c) - 1) EXCEPT
                       ![Depth(c) - 1].stage = "settled",
                       ![Depth(c) - 1].outcome =
                           Some(Rejected(Top(c).outcome[1].value))]]
    /\ UNCHANGED <<auth, args, cookie, now, turn, result, done, expired, issued,
                   dispatched, solo, expiredTogether, lastWrite>>

\* the promise the verb method returned settles and the continuation of the
\* caller starts with its settlement
Settle(c) ==
    /\ turn = c
    /\ Depth(c) = 1
    /\ Top(c).stage = "settled"
    /\ result[c] = Undefined
    /\ result' = [result EXCEPT ![c] = Top(c).outcome]
    /\ UNCHANGED <<auth, args, cookie, now, turn, stack, done, expired, issued,
                   dispatched, solo, expiredTogether, lastWrite>>

\* the continuation of the caller returns and the call is over
Return(c) ==
    /\ turn = c
    /\ result[c] # Undefined
    /\ stack' = [stack EXCEPT ![c] = <<>>]
    /\ result' = [result EXCEPT ![c] = Undefined]
    /\ done' = [done EXCEPT ![c] = TRUE]
    /\ dispatched' = [dispatched EXCEPT ![c] = [refresh |-> 0, request |-> 0]]
    /\ solo' = [solo EXCEPT ![c] = TRUE]
    /\ turn' = 0
    /\ UNCHANGED <<auth, args, cookie, now, expired, issued, expiredTogether, lastWrite>>

\* time passes between two turns of the event loop
Tick ==
    /\ turn = 0
    /\ now < MaxTime
    /\ now' = now + 1
    /\ UNCHANGED <<auth, args, cookie, turn, stack, result, done, expired, issued,
                   dispatched, solo, expiredTogether, lastWrite>>

Next ==
    \/ \E c \in Callers : \E config \in VerbCalls(c) : Call(c, config)
    \/ \E c \in Callers : RequestInterceptor(c)
    \/ \E c \in Callers, headers \in ResponseHeaders, data \in ResponseBodies :
          ResponseSuccess(c, headers, data)
    \/ \E c \in Callers, response \in ErrorResponses : ResOnErrorReject(c, response)
    \/ \E c \in Callers, response \in ErrorResponses : ResOnErrorRefresh(c, response)
    \/ \E c \in Callers : GetNewTokenResume(c)
    \/ \E c \in Callers : GetNewTokenCatch(c)
    \/ \E c \in Callers : Settle(c)
    \/ \E c \in Callers : Return(c)
    \/ Tick

Spec == Init /\ [][Next]_vars

\* a server that is not limited in the token-expired answers it gives: while
\* no refresh POST is pending the count of those given starts anew
Unlimited ==
    /\ turn = 0
    /\ expired > 0
    /\ \A c \in Callers : Depth(c) <= 1
    /\ expired' = 0
    /\ UNCHANGED <<auth, args, cookie, now, turn, stack, result, done, issued,
                   dispatched, solo, expiredTogether, lastWrite>>

\* an answer, of whatever kind, arrives for the request caller c has in flight
Answer(c) ==
    \/ \E headers \in ResponseHeaders, data \in ResponseBodies :
          ResponseSuccess(c, headers, data)
    \/ \E response \in ErrorResponses : ResOnErrorReject(c, response)
    \/ \E response \in ErrorResponses : ResOnErrorRefresh(c, response)

\* the callers followed to the end of their calls
LiveCallers == {1}

\* the event loop runs every continuation that is ready, and the transport
\* completes every request it was handed
Fairness ==
    \A c \in LiveCallers :
        /\ WF_vars(RequestInterceptor(c))
        /\ WF_vars(GetNewTokenResume(c))
        /\ WF_vars(GetNewTokenCatch(c))
        /\ WF_vars(Settle(c))
        /\ WF_vars(Return(c))
        /\ SF_vars(Answer(c))

\* a client with requiresAuth = true in a session with an access token
InitLive == Init /\ auth /\ cookie[COOKIE_KEY_ACCESS_TOKEN] # Undefined

NextLive ==
    \/ \E c \in LiveCallers : \E config \in VerbCalls(c) : Call(c, config)
    \/ \E c \in LiveCallers : RequestInterceptor(c)
    \/ \E c \in LiveCallers : Answer(c)
    \/ \E c \in LiveCallers : GetNewTokenResume(c)
    \/ \E c \in LiveCallers : GetNewTokenCatch(c)
    \/ \E c \in LiveCallers : Settle(c)
    \/ \E c \in LiveCallers : Return(c)
    \/ Tick
    \/ Unlimited

SpecLive == InitLive /\ [][NextLive]_vars /\ Fairness

\* the calls of put: each caller calls put with some arguments and the
\* request goes out through the request interceptor
NextPut ==
    \/ \E c \in Callers, endPoint \in EndPoints, data \in PutData, id \in Ids :
          CallPut(c, endPoint, data, id)
    \/ \E c \in Callers : RequestInterceptor(c)

SpecPut == Init /\ [][NextPut]_vars

\* ------------------------------------------------------------ the claims
\* the Authorization value the code derives from a token
Derived(token) == TemplateString(OptionalReplace(Some(token)))

\* the configuration carries the Authorization header with this value
HasAuthorization(config, value) ==
    /\ "Authorization" \in DOMAIN config.headers
    /\ config.headers["Authorization"] = value

\* the step in which the request interceptor of caller c runs
InterceptorStep(c) ==
    /\ turn = c
    /\ stack[c] # <<>>
    /\ Top(c).stage = "created"
    /\ stack'[c] # stack[c]

\* the step in which #getNewToken of caller c resumes after the refresh POST
\* has resolved
ResumeStep(c) ==
    /\ turn = c
    /\ Depth(c) >= 2
    /\ Top(c).stage = "settled"
    /\ Top(c).outcome[1].ok
    /\ Parent(c).stage = "refreshing"
    /\ stack'[c] # stack[c]

\* the step in which an answer arrives for the request caller c has in flight
AnswerStep(c) ==
    /\ turn = 0
    /\ InFlight(c)
    /\ stack'[c] # stack[c]

\* C1: on a client with requiresAuth = true every request the request
\* interceptor lets out to the transport (of a verb method, the refresh POST,
\* the re-issued request) carries an Authorization header, and its value is
\* derived from the access-token cookie as it is in the step in which the
\* interceptor runs for that request, whatever was written to the cookie before.
C1_Step(c) ==
    auth /\ InterceptorStep(c) =>
        LET frame == stack'[c][Depth(c)]
        IN  /\ frame.stage = "inflight"
            /\ HasAuthorization(frame.sent[1], AuthorizationValue(cookie))

C1_AuthorizationFromCurrentCookie == [][\A c \in Callers : C1_Step(c)]_vars

\* a verb request is in flight with the Authorization of a token that was
\* written to the cookie after the client was constructed
C1_Witness ==
    /\ auth
    /\ lastWrite # Undefined
    /\ \E c \in Callers :
          /\ InFlight(c)
          /\ Top(c).kind = "verb"
          /\ HasAuthorization(Top(c).sent[1], Derived(lastWrite[1]))

\* C2: with a single call pending, when the refresh POST of a request rejected
\* with the token-expired status resolves with a non-empty accessToken t, then
\* (a) the access-token cookie holds t, (b) the rejected request is re-issued,
\* unchanged but for Authorization derived from t, and goes out with the
\* Authorization of the cookie, and (c) the promise of the caller settles with
\* the settlement of the re-issued request and never with an error of the
\* token-expired status.
C2_Resume(c) ==
    ResumeStep(c) /\ solo[c] /\ Truthy(Top(c).outcome[1].value.data.accessToken) =>
        LET t     == Top(c).outcome[1].value.data.accessToken[1]
            retry == stack'[c][Depth(c) - 1]
        IN  /\ CookieGet(cookie', COOKIE_KEY_ACCESS_TOKEN) = Some(t)
            /\ Len(stack'[c]) = Depth(c) - 1
            /\ retry.kind = "retry"
            /\ retry.stage = "created"
            /\ retry.config =
                  [Parent(c).sent[1] EXCEPT
                      !.headers = Spread(@, "Authorization", Derived(t))]

C2_Reissued(c) ==
    /\ solo[c]
    /\ stack[c] # <<>>
    /\ Top(c).kind = "retry"
    /\ Top(c).stage \in {"created", "inflight"}
    => /\ HasAuthorization(Top(c).config, AuthorizationValue(cookie))
       /\ Top(c).stage = "inflight" =>
             HasAuthorization(Top(c).sent[1], AuthorizationValue(cookie))

C2_Settled(c) ==
    result[c] # Undefined =>
        /\ Depth(c) = 1
        /\ result[c] = stack[c][1].outcome
        /\ dispatched[c].request >= 2 => stack[c][1].kind = "retry"
        /\ result[c][1].ok \/ ~IsExpired(result[c][1].value.response)

C2_RefreshThenRetry ==
    /\ [][\A c \in Callers : C2_Resume(c)]_vars
    /\ [](\A c \in Callers : C2_Reissued(c) /\ C2_Settled(c))

\* the only call pending was answered token-expired, refreshed once with the
\* token of most '%' and its caller has the answer of the re-issued request
C2_Witness ==
    \E c \in Callers :
        /\ solo[c]
        /\ result[c] # Undefined
        /\ result[c][1].ok
        /\ stack[c][1].kind = "retry"
        /\ dispatched[c] = [refresh |-> 1, request |-> 2]
        /\ HasAuthorization(result[c][1].value.config, Derived(Token(MaxPercent)))
        /\ CookieGet(cookie, COOKIE_KEY_ACCESS_TOKEN) = Some(Token(MaxPercent))

\* the answer of the transport is a rejection, not a response
IsError(answer) == "response" \in DOMAIN answer

\* the frame the answered request of caller c is after an answer step
Answered(c) == stack'[c][Depth(c)]

\* C3: when the refresh POST of a request rejected with the token-expired
\* status is itself rejected, by the network or by any status, the
\* token-expired status included, #getNewToken rejects with that rejection:
\* the promise of the caller is rejected with it and the rejected request is
\* not re-issued, nor anything else dispatched.
C3_RefreshRejected(c) ==
    AnswerStep(c) /\ Top(c).kind = "refresh" /\ IsError(Answered(c).answer[1]) =>
        /\ Len(stack'[c]) = Depth(c)
        /\ Answered(c).stage = "settled"
        /\ Answered(c).outcome = Some(Rejected(Answered(c).answer[1]))
        /\ dispatched' = dispatched

C3_Caught(c) ==
    /\ turn = c
    /\ Depth(c) >= 2
    /\ Top(c).kind = "refresh"
    /\ Top(c).stage = "settled"
    /\ ~Top(c).outcome[1].ok
    /\ stack'[c] # stack[c]
    => /\ Len(stack'[c]) = Depth(c) - 1
       /\ stack'[c][Depth(c) - 1].stage = "settled"
       /\ stack'[c][Depth(c) - 1].outcome = Top(c).outcome
       /\ dispatched' = dispatched

C3_RefreshRejectionPropagates ==
    [][\A c \in Callers : C3_RefreshRejected(c) /\ C3_Caught(c)]_vars

\* C4: a call issues at most one refresh POST and dispatches its own request
\* at most twice.
C4_AtMostOneRefresh ==
    \A c \in Callers :
        dispatched[c].refresh <= 1 /\ dispatched[c].request <= 2

\* C5: a successful response with a non-empty authorization (refreshtoken)
\* header has overwritten the access-token (refresh-token) cookie with the
\* value of the header when the response is handed on, to #getNewToken for a
\* refresh POST and to the caller for the other requests, and what is handed
\* on is the response of the transport, unmodified.
C5_Stored(res) ==
    /\ Truthy(res.headers.authorization) =>
          CookieGet(cookie, COOKIE_KEY_ACCESS_TOKEN) = res.headers.authorization
    /\ Truthy(res.headers.refreshtoken) =>
          CookieGet(cookie, COOKIE_KEY_REFRESH_TOKEN) = res.headers.refreshtoken

C5_HandedOn(c) ==
    stack[c] # <<>> /\ Top(c).stage = "settled" /\ ~IsError(Top(c).answer[1]) =>
        /\ Top(c).outcome = Some(Resolved(Top(c).answer[1]))
        /\ C5_Stored(Top(c).answer[1])
        /\ result[c] # Undefined => result[c] = Some(Resolved(Top(c).answer[1]))

C5_CookieBeforeDelivery == \A c \in Callers : C5_HandedOn(c)

\* the caller has the response of a re-issued request that carried both
\* headers, and both cookies hold the values of the headers
C5_Witness ==
    \E c \in Callers :
        /\ result[c] # Undefined
        /\ result[c][1].ok
        /\ Top(c).kind = "retry"
        /\ Truthy(result[c][1].value.headers.authorization)
        /\ Truthy(result[c][1].value.headers.refreshtoken)
        /\ CookieGet(cookie, COOKIE_KEY_ACCESS_TOKEN)
              = result[c][1].value.headers.authorization
        /\ CookieGet(cookie, COOKIE_KEY_REFRESH_TOKEN)
              = result[c][1].value.headers.refreshtoken

\* the string with every occurrence of the character replaced
ReplaceEvery(str, pattern, replacement) ==
    [i \in 1..Len(str) |-> IF str[i] = pattern THEN replacement ELSE str[i]]

\* C6: the Authorization header the request interceptor and #getNewToken
\* compute from an access-token cookie of value v is v with every '%' replaced
\* by a space.
C6_Interceptor(c) ==
    auth /\ InterceptorStep(c) /\ cookie[COOKIE_KEY_ACCESS_TOKEN] # Undefined =>
        HasAuthorization(stack'[c][Depth(c)].sent[1],
                         ReplaceEvery(cookie[COOKIE_KEY_ACCESS_TOKEN][1].value, "%", " "))

C6_Resume(c) ==
    ResumeStep(c) /\ cookie'[COOKIE_KEY_ACCESS_TOKEN] # Undefined =>
        HasAuthorization(stack'[c][Depth(c) - 1].config,
                         ReplaceEvery(cookie'[COOKIE_KEY_ACCESS_TOKEN][1].value, "%", " "))

C6_EveryPercentReplaced ==
    [][\A c \in Callers : C6_Interceptor(c) /\ C6_Resume(c)]_vars

\* C7: a rejection without a response, or with a response of another status
\* than the token-expired one, is propagated as it is: the request settles
\* with that very rejection, nothing is dispatched (no refresh POST, no
\* re-issue) and both cookies stay as they are; the caller of a verb method
\* gets the rejection its request settled with.
C7_Propagated(c) ==
    /\ AnswerStep(c)
    /\ IsError(Answered(c).answer[1])
    /\ ~IsExpired(Answered(c).answer[1].response)
    => /\ Len(stack'[c]) = Depth(c)
       /\ Answered(c).stage = "settled"
       /\ Answered(c).answer[1].config = Top(c).sent[1]
       /\ Answered(c).outcome = Some(Rejected(Answered(c).answer[1]))
       /\ dispatched' = dispatched
       /\ cookie' = cookie

C7_Delivered(c) ==
    /\ turn = c
    /\ Depth(c) = 1
    /\ Top(c).stage = "settled"
    /\ IsError(Top(c).answer[1])
    /\ ~IsExpired(Top(c).answer[1].response)
    /\ result[c] = Undefined
    /\ result'[c] # Undefined
    => /\ result'[c] = Some(Rejected(Top(c).answer[1]))
       /\ dispatched' = dispatched
       /\ cookie' = cookie

C7_OtherErrorsPropagate ==
    [][\A c \in Callers : C7_Propagated(c) /\ C7_Delivered(c)]_vars

\* the caller has the rejection of its request, answered with status 500,
\* and its call has dispatched nothing but that request
C7_Witness ==
    \E c \in Callers :
        /\ result[c] # Undefined
        /\ ~result[c][1].ok
        /\ result[c][1].value.response = Some([status |-> 500])
        /\ Top(c).kind = "verb"
        /\ dispatched[c] = [refresh |-> 0, request |-> 1]

\* C8: on a client with requiresAuth = false the request interceptor lets the
\* configuration out as it got it, headers included, whatever the cookie jar
\* holds; the request of a verb method goes out without Authorization.
C8_Frame(frame) ==
    /\ frame.sent # Undefined => frame.sent[1] = frame.config
    /\ frame.sent # Undefined /\ frame.kind = "verb" =>
          "Authorization" \notin DOMAIN frame.sent[1].headers
    /\ \A jar \in Jars \cup {cookie} :
          reqMiddleWare(frame.config, auth, jar) = frame.config

C8_NoAuthPassThrough ==
    ~auth => \A c \in Callers : \A i \in 1..Depth(c) : C8_Frame(stack[c][i])

\* on a client with requiresAuth = false a verb request with a header of its
\* own is in flight while the jar holds an access token
C8_Witness ==
    /\ ~auth
    /\ cookie[COOKIE_KEY_ACCESS_TOKEN] # Undefined
    /\ \E c \in Callers :
          /\ InFlight(c)
          /\ Top(c).kind = "verb"
          /\ DOMAIN Top(c).sent[1].headers = {"Content-Type"}

\* C9: the success interceptor writes the access-token cookie exactly when the
\* response has a non-empty authorization header and the refresh-token cookie
\* exactly when it has a non-empty refreshtoken header; a cookie that is not
\* written keeps its value and expiry whether or not the other is written.
C9_Write(c, key, header) ==
    IF Truthy(header)
    THEN CookieGet(cookie', key) = header
    ELSE cookie'[key] = cookie[key]

C9_Success(c) ==
    AnswerStep(c) /\ ~IsError(Answered(c).answer[1]) =>
        /\ C9_Write(c, COOKIE_KEY_ACCESS_TOKEN,
                    Answered(c).answer[1].headers.authorization)
        /\ C9_Write(c, COOKIE_KEY_REFRESH_TOKEN,
                    Answered(c).answer[1].headers.refreshtoken)

C9_IndependentWrites == [][\A c \in Callers : C9_Success(c)]_vars

\* a response with a refreshtoken header and no authorization header has been
\* handled: the refresh-token cookie holds the header and the access-token
\* cookie is the one the jar had at the start
C9_Witness ==
    \E c \in Callers :
        /\ stack[c] # <<>>
        /\ Top(c).stage = "settled"
        /\ ~IsError(Top(c).answer[1])
        /\ Top(c).answer[1].headers.authorization = Undefined
        /\ Truthy(Top(c).answer[1].headers.refreshtoken)
        /\ CookieGet(cookie, COOKIE_KEY_REFRESH_TOKEN)
              = Top(c).answer[1].headers.refreshtoken
        /\ now > 0
        /\ cookie[COOKIE_KEY_ACCESS_TOKEN] \in
              {Some([value |-> InitialAccessToken, config |-> COOKIE_CONFIG_DEFAULT,
                     expires |-> COOKIE_EXPIRE_ACCESS_TOKEN])}

\* C10: a request answered with the token-expired status starts the refresh
\* POST of its own chain whatever the other chain is doing, so two requests
\* that were in flight together and are both so answered make two refresh
\* POSTs; whatever the order of the cookie writes, the access-token cookie
\* holds the value written last, also once both calls are over.
C10_OwnRefresh(c) ==
    /\ AnswerStep(c)
    /\ IsError(Answered(c).answer[1])
    /\ IsExpired(Answered(c).answer[1].response)
    => /\ Len(stack'[c]) = Depth(c) + 1
       /\ stack'[c][Depth(c) + 1].kind = "refresh"
       /\ stack'[c][Depth(c) + 1].stage = "created"
       /\ IsRefreshUrl(stack'[c][Depth(c) + 1].config)
       /\ dispatched'[c].refresh = dispatched[c].refresh + 1
       /\ \A d \in Callers \ {c} :
             stack'[d] = stack[d] /\ dispatched'[d] = dispatched[d]

C10_LastWriterWins ==
    lastWrite # Undefined =>
        CookieGet(cookie, COOKIE_KEY_ACCESS_TOKEN) = lastWrite

C10_BothRefreshed ==
    \A c \in expiredTogether : done[c] \/ dispatched[c].refresh >= 1

C10_ConcurrentRefreshes ==
    /\ [][\A c \in Callers : C10_OwnRefresh(c)]_vars
    /\ [](C10_LastWriterWins /\ C10_BothRefreshed)

\* both requests were answered token-expired while in flight together, both
\* refresh POSTs resolved and both requests are re-issued, with Authorization
\* of two different tokens, the cookie holding the one of the second write
C10_Witness ==
    /\ ~auth
    /\ expiredTogether = Callers
    /\ \E c \in Callers : \E d \in Callers \ {c} :
          /\ InFlight(c) /\ Top(c).kind = "retry"
          /\ InFlight(d) /\ Top(d).kind = "retry"
          /\ HasAuthorization(Top(c).sent[1], Derived(Token(1)))
          /\ HasAuthorization(Top(d).sent[1], Derived(Token(MaxPercent)))
          /\ lastWrite = Some(Token(MaxPercent))
          /\ CookieGet(cookie, COOKIE_KEY_ACCESS_TOKEN) = Some(Token(MaxPercent))

\* C11: put(endPoint, data, id) sends a PUT whose body is data and whose URL
\* is endPoint, "/" and the text of id when id is a string (the empty one
\* included: "items/") or a number (0 included: "items/0"), and is endPoint
\* alone when id is omitted or undefined, null, NaN or false.
C11_Joined(id) == id.type \in {"string", "number"}

C11_Url(endPoint, id) ==
    IF C11_Joined(id) THEN endPoint \o <<"/">> \o TemplateLiteral(id) ELSE endPoint

C11_Call(c) ==
    args[c] # Undefined =>
        LET a     == args[c][1]
            frame == stack[c][1]
        IN  /\ frame.config.method = METHOD_PUT
            /\ frame.config.data = a.data
            /\ frame.config.url = C11_Url(a.endPoint, a.id)
            /\ a.id = JsNumber(0) => frame.config.url = a.endPoint \o <<"/", "0">>
            /\ a.id = JsString(<<>>) => frame.config.url = a.endPoint \o <<"/">>
            /\ a.id = JsUndefined => frame.config.url = a.endPoint
            /\ frame.sent # Undefined =>
                  /\ frame.sent[1].method = frame.config.method
                  /\ frame.sent[1].url = frame.config.url
                  /\ frame.sent[1].data = frame.config.data

C11_PutUrl == \A c \in Callers : C11_Call(c)

\* a put with id 0 and a put with id "" are in flight, to "items/0" and to
\* "items/"
C11_Witness ==
    \E c \in Callers : \E d \in Callers \ {c} :
        /\ InFlight(c) /\ args[c] # Undefined /\ args[c][1].id = JsNumber(0)
        /\ Top(c).sent[1].url = <<"items", "/", "0">>
        /\ InFlight(d) /\ args[d] # Undefined /\ args[d][1].id = JsString(<<>>)
        /\ Top(d).sent[1].url = <<"items", "/">>

\* the step in which a re-issued request of caller c is handed to the
\* transport instance
ReissueStep(c) ==
    /\ stack'[c] # stack[c]
    /\ stack'[c] # <<>>
    /\ stack'[c][Len(stack'[c])].kind = "retry"
    /\ stack'[c][Len(stack'[c])].stage = "created"

\* C12: a request is re-issued only in the step in which #getNewToken resumes
\* with the resolved refresh POST of that request, the refresh POST being over
\* and the cookie holding the accessToken of its body if it has one; of the
\* dispatches of one chain only the innermost is created or in flight, so the
\* refresh POST and the re-issued request are never in flight together.
C12_AfterRefresh(c) ==
    ReissueStep(c) =>
        /\ turn = c
        /\ Depth(c) >= 2
        /\ Top(c).kind \in {"refresh", "retry"}
        /\ IsRefreshUrl(Top(c).config)
        /\ Top(c).stage = "settled"
        /\ Top(c).outcome[1].ok
        /\ Parent(c).stage = "refreshing"
        /\ Len(stack'[c]) = Depth(c) - 1
        /\ stack'[c][Depth(c) - 1].config.url = Parent(c).sent[1].url
        /\ Truthy(Top(c).outcome[1].value.data.accessToken) =>
              CookieGet(cookie', COOKIE_KEY_ACCESS_TOKEN)
                 = Top(c).outcome[1].value.data.accessToken

C12_OneAtATime(c) ==
    \A i \in 1..Depth(c) :
        /\ i < Depth(c) => stack[c][i].stage = "refreshing"
        /\ i < Depth(c) => IsRefreshUrl(stack[c][i + 1].config)
        /\ stack[c][i].stage \in {"created", "inflight"} => i = Depth(c)

C12_Sequential ==
    /\ [][\A c \in Callers : C12_AfterRefresh(c)]_vars
    /\ [](\A c \in Callers : C12_OneAtATime(c))

\* the re-issued request of a call is in flight, alone in its chain, after one
\* refresh POST whose token the cookie holds
C12_Witness ==
    \E c \in Callers :
        /\ Depth(c) = 1
        /\ InFlight(c)
        /\ Top(c).kind = "retry"
        /\ ~IsRefreshUrl(Top(c).config)
        /\ dispatched[c] = [refresh |-> 1, request |-> 2]
        /\ lastWrite = Some(Token(MaxPercent))
        /\ HasAuthorization(Top(c).sent[1], Derived(Token(MaxPercent)))

\* C13: the success interceptor writes the access-token cookie with expiry
\* time of the write + ACCESS_TOKEN lifetime and the refresh-token cookie
\* with expiry time of the write + REFRESH_TOKEN lifetime; #getNewToken
\* writes the access-token cookie, from the accessToken of the body, with
\* expiry time of the write + REFRESH_TOKEN lifetime.
C13_Expires(jar, key) == jar[key][1].expires

C13_Interceptor(c) ==
    AnswerStep(c) /\ ~IsError(Answered(c).answer[1]) =>
        LET headers == Answered(c).answer[1].headers
        IN  /\ Truthy(headers.authorization) =>
                  C13_Expires(cookie', COOKIE_KEY_ACCESS_TOKEN)
                     = now + COOKIE_EXPIRE_ACCESS_TOKEN
            /\ Truthy(headers.refreshtoken) =>
                  C13_Expires(cookie', COOKIE_KEY_REFRESH_TOKEN)
                     = now + COOKIE_EXPIRE_REFRESH_TOKEN

C13_Refresh(c) ==
    ResumeStep(c) /\ Truthy(Top(c).outcome[1].value.data.accessToken) =>
        /\ CookieGet(cookie', COOKIE_KEY_ACCESS_TOKEN)
              = Top(c).outcome[1].value.data.accessToken
        /\ C13_Expires(cookie', COOKIE_KEY_ACCESS_TOKEN)
              = now + COOKIE_EXPIRE_REFRESH_TOKEN
        /\ cookie'[COOKIE_KEY_REFRESH_TOKEN] = cookie[COOKIE_KEY_REFRESH_TOKEN]

C13_ExpiryValues ==
    [][\A c \in Callers : C13_Interceptor(c) /\ C13_Refresh(c)]_vars

\* after the clock has advanced, a refresh POST whose response had a
\* refreshtoken header and an accessToken in its body has been handled: the
\* access-token cookie expires a REFRESH_TOKEN lifetime from now, as the
\* refresh-token cookie does
C13_Witness ==
    /\ now = MaxTime
    /\ \E c \in Callers :
          /\ stack[c] # <<>>
          /\ Top(c).kind = "retry"
          /\ Top(c).stage = "created"
    /\ lastWrite = Some(Token(MaxPercent))
    /\ CookieGet(cookie, COOKIE_KEY_ACCESS_TOKEN) = Some(Token(MaxPercent))
    /\ CookieGet(cookie, COOKIE_KEY_REFRESH_TOKEN) \in {Some(t) : t \in RefreshTokens}
    /\ C13_Expires(cookie, COOKIE_KEY_ACCESS_TOKEN)
          = MaxTime + COOKIE_EXPIRE_REFRESH_TOKEN
    /\ C13_Expires(cookie, COOKIE_KEY_REFRESH_TOKEN)
          = MaxTime + COOKIE_EXPIRE_REFRESH_TOKEN

\* C14: the configuration #getNewToken re-issues has the method, URL, params,
\* body and headers of the configuration of the rejected request, but for
\* Authorization, which is derived from the access-token cookie as it is
\* after the cookie write of that refresh, whatever requiresAuth is: on a
\* client with requiresAuth = false the request of a verb method goes out
\* without Authorization and its re-issue goes out with it.
C14_Config(c) ==
    ResumeStep(c) =>
        LET original == Parent(c).sent[1]
            retry    == stack'[c][Depth(c) - 1]
        IN  /\ retry.kind = "retry"
            /\ retry.config.method = original.method
            /\ retry.config.url = original.url
            /\ retry.config.params = original.params
            /\ retry.config.data = original.data
            /\ DOMAIN retry.config.headers
                  = DOMAIN original.headers \cup {"Authorization"}
            /\ \A h \in DOMAIN original.headers \ {"Authorization"} :
                  retry.config.headers[h] = original.headers[h]
            /\ retry.config.headers["Authorization"] = AuthorizationValue(cookie')

C14_Sent(c) ==
    \A i \in 1..Depth(c) :
        LET frame == stack[c][i]
        IN  frame.sent # Undefined =>
              /\ frame.kind = "retry" =>
                    /\ "Authorization" \in DOMAIN frame.sent[1].headers
                    /\ ~auth => frame.sent[1] = frame.config
              /\ ~auth /\ frame.kind = "verb" =>
                    "Authorization" \notin DOMAIN frame.sent[1].headers

C14_RetryConfig ==
    /\ [][\A c \in Callers : C14_Config(c)]_vars
    /\ [](\A c \in Callers : C14_Sent(c))

\* on a client with requiresAuth = false the multipart request of a caller,
\* sent without Authorization, is in flight again with its Content-Type and
\* the Authorization of the token the refresh POST answered
C14_Witness ==
    /\ ~auth
    /\ \E c \in Callers :
          /\ InFlight(c)
          /\ Depth(c) = 1
          /\ Top(c).kind = "retry"
          /\ dispatched[c] = [refresh |-> 1, request |-> 2]
          /\ DOMAIN Top(c).sent[1].headers = {"Content-Type", "Authorization"}
          /\ Top(c).sent[1].data = [file |-> <<"x">>]
          /\ HasAuthorization(Top(c).sent[1], Derived(Token(1)))
          /\ lastWrite = Some(Token(1))

\* C15: while there is no access-token cookie, a client with requiresAuth =
\* true lets every request out to the transport, with the Authorization
\* header "undefined"; and the configuration #getNewToken re-issues, on any
\* client, has the Authorization header "undefined" when there is no
\* access-token cookie after the refresh.
C15_Text == <<"u", "n", "d", "e", "f", "i", "n", "e", "d">>

C15_Interceptor(c) ==
    auth /\ InterceptorStep(c) /\ cookie[COOKIE_KEY_ACCESS_TOKEN] = Undefined =>
        LET frame == stack'[c][Depth(c)]
        IN  /\ Len(stack'[c]) = Depth(c)
            /\ frame.stage = "inflight"
            /\ frame.outcome = Undefined
            /\ HasAuthorization(frame.sent[1], C15_Text)

C15_Resume(c) ==
    ResumeStep(c) /\ cookie'[COOKIE_KEY_ACCESS_TOKEN] = Undefined =>
        LET retry == stack'[c][Depth(c) - 1]
        IN  /\ retry.kind = "retry"
            /\ retry.stage = "created"
            /\ HasAuthorization(retry.config, C15_Text)

C15_Reissued(c) ==
    /\ stack[c] # <<>>
    /\ Top(c).kind = "retry"
    /\ Top(c).stage = "inflight"
    /\ lastWrite = Undefined
    /\ cookie[COOKIE_KEY_ACCESS_TOKEN] = Undefined
    => HasAuthorization(Top(c).sent[1], C15_Text)

C15_UndefinedHeader ==
    /\ [][\A c \in Callers : C15_Interceptor(c) /\ C15_Resume(c)]_vars
    /\ [](\A c \in Callers : C15_Reissued(c))

\* on a client with requiresAuth = true and no access-token cookie, a request
\* went out, was answered token-expired and refreshed without a token, and its
\* re-issue is in flight with Authorization "undefined"
C15_Witness ==
    /\ auth
    /\ cookie[COOKIE_KEY_ACCESS_TOKEN] = Undefined
    /\ \E c \in Callers :
          /\ InFlight(c)
          /\ Top(c).kind = "retry"
          /\ dispatched[c] = [refresh |-> 1, request |-> 2]
          /\ HasAuthorization(Top(c).config, C15_Text)
          /\ HasAuthorization(Top(c).sent[1], C15_Text)

\* C16: when the refresh POST resolves with a body without accessToken, or
\* with the empty string as accessToken, #getNewToken leaves the cookies as
\* they are, value and expiry, and re-issues the rejected request all the
\* same, with Authorization derived from the access-token cookie there is, or
\* "undefined" when there is none.
C16_Resume(c) ==
    ResumeStep(c) /\ ~Truthy(Top(c).outcome[1].value.data.accessToken) =>
        LET original == Parent(c).sent[1]
            retry    == stack'[c][Depth(c) - 1]
        IN  /\ cookie' = cookie
            /\ Len(stack'[c]) = Depth(c) - 1
            /\ retry.kind = "retry"
            /\ retry.stage = "created"
            /\ retry.config.url = original.url
            /\ retry.config.method = original.method
            /\ retry.config.data = original.data
            /\ HasAuthorization(
                  retry.config,
                  IF cookie[COOKIE_KEY_ACCESS_TOKEN] = Undefined
                  THEN <<"u", "n", "d", "e", "f", "i", "n", "e", "d">>
                  ELSE Derived(cookie[COOKIE_KEY_ACCESS_TOKEN][1].value))
            /\ IF IsRefreshUrl(original)
               THEN dispatched'[c].refresh = dispatched[c].refresh + 1
               ELSE dispatched'[c].request = dispatched[c].request + 1

C16_NoTokenInBody == [][\A c \in Callers : C16_Resume(c)]_vars

\* no answer has carried any token, the access-token cookie is the one of
\* the start, and a request answered token-expired has been re-issued after
\* its refresh POST, with Authorization derived from that cookie
C16_Witness ==
    /\ issued = 0
    /\ lastWrite = Undefined
    /\ cookie[COOKIE_KEY_ACCESS_TOKEN] =
          Some([value |-> InitialAccessToken, config |-> COOKIE_CONFIG_DEFAULT,
                expires |-> COOKIE_EXPIRE_ACCESS_TOKEN])
    /\ \E c \in Callers :
          /\ stack[c] # <<>>
          /\ Top(c).kind = "retry"
          /\ Top(c).stage = "created"
          /\ dispatched[c] = [refresh |-> 1, request |-> 2]
          /\ HasAuthorization(Top(c).config, Derived(InitialAccessToken))

\* C17: the transport completing every request it is handed, every call of a
\* verb method comes to settle the promise of its caller, whatever the server
\* answers, also when it answers the re-issued request or the refresh POST
\* with the token-expired status again.
C17_EveryCallSettles ==
    \A c \in LiveCallers : (stack[c] # <<>>) ~> (result[c] # Undefined)

\* C18: the access-token cookie holds the value it had at the start, or the
\* authorization header of a successful response, or the accessToken of the
\* body of a successful refresh POST; the refresh-token cookie holds the
\* value it had at the start or the refreshtoken header of a successful
\* response.  No cookie is ever deleted, and the request interceptor, the
\* error path and #getNewToken never write the refresh-token cookie.
C18_FromHeader(c, key, header) ==
    /\ AnswerStep(c)
    /\ ~IsError(Answered(c).answer[1])
    /\ Truthy(Answered(c).answer[1].headers[header])
    /\ CookieGet(cookie', key) = Answered(c).answer[1].headers[header]

C18_FromBody(c) ==
    /\ ResumeStep(c)
    /\ IsRefreshUrl(Top(c).config)
    /\ Truthy(Top(c).outcome[1].value.data.accessToken)
    /\ CookieGet(cookie', COOKIE_KEY_ACCESS_TOKEN)
          = Top(c).outcome[1].value.data.accessToken

C18_Writes ==
    /\ cookie'[COOKIE_KEY_ACCESS_TOKEN] # cookie[COOKIE_KEY_ACCESS_TOKEN] =>
          \E c \in Callers :
              \/ C18_FromHeader(c, COOKIE_KEY_ACCESS_TOKEN, "authorization")
              \/ C18_FromBody(c)
    /\ cookie'[COOKIE_KEY_REFRESH_TOKEN] # cookie[COOKIE_KEY_REFRESH_TOKEN] =>
          \E c \in Callers :
              C18_FromHeader(c, COOKIE_KEY_REFRESH_TOKEN, "refreshtoken")
    /\ \A key \in DOMAIN cookie :
          cookie[key] # Undefined => cookie'[key] # Undefined
    /\ DOMAIN cookie' = DOMAIN cookie

C18_Values ==
    /\ CookieGet(cookie, COOKIE_KEY_ACCESS_TOKEN) \in
          {Undefined, Some(InitialAccessToken)}
          \cup {Some(t) : t \in HeaderTokens \cup AccessTokens}
    /\ lastWrite = Undefined =>
          CookieGet(cookie, COOKIE_KEY_ACCESS_TOKEN) \in
             {Undefined, Some(InitialAccessToken)}
    /\ CookieGet(cookie, COOKIE_KEY_REFRESH_TOKEN) \in
          {Some(InitialRefreshToken)} \cup {Some(t) : t \in RefreshTokens}

C18_CookieProvenance == [][C18_Writes]_vars /\ []C18_Values

\* the access-token cookie holds the accessToken of the body of a refresh
\* POST and the refresh-token cookie the refreshtoken header of a response,
\* neither being the value of the start
C18_Witness ==
    /\ CookieGet(cookie, COOKIE_KEY_ACCESS_TOKEN) = Some(Token(MaxPercent))
    /\ lastWrite = Some(Token(MaxPercent))
    /\ CookieGet(cookie, COOKIE_KEY_REFRESH_TOKEN) \in {Some(t) : t \in RefreshTokens}
    /\ \E c \in Callers : done[c]

====
